---- MODULE Spec2Model ----
(***************************************************************************)
(* Guest share links of the Rosdomofon integration.                        *)
(*                                                                         *)
(* State machine of custom_components/rosdomofon: the ShareLinkManager of  *)
(* share.py (generate, revoke, revoke_all, the expiry callback and the     *)
(* guest webhook handler), the RosdomofonLock entity of lock.py that the   *)
(* handler's lock.unlock service call ends in, and the entries of          *)
(* hass.data[DOMAIN] (__init__.py), each of which owns one manager.        *)
(*                                                                         *)
(* The Russian texts of the pages are written in Latin letters.            *)
(*                                                                         *)
(* Time is time.time() in whole seconds.  ttl_hours is a float in the      *)
(* code; here it is carried as a number q of quarter-hours (ttl_hours =    *)
(* q/4), so that ttl_hours * 3600 is an integer number of seconds.         *)
(***************************************************************************)
EXTENDS Integers, Sequences, FiniteSets, Bags, TLC

VARIABLES
    now,            \* time.time(), seconds
    data,           \* hass.data[DOMAIN]: the loaded entry ids in dict order, and the proxy flag
    services,       \* the services registered with hass.services
    _links,         \* ShareLinkManager._links of each entry's manager
    handlers,       \* the host's webhook registry: webhook_id -> owning manager, 0: none
    timers,         \* pending async_call_later expiry callbacks
    calls,          \* bag of the lock.unlock service calls in flight (suspended handlers)
    _attr_is_locked,\* RosdomofonLock._attr_is_locked
    _unlock_timer,  \* RosdomofonLock._unlock_timer: <<due time>>, or <<>> for None
    lock_timers,    \* bag of the due times of the host's pending auto-lock callbacks
    last            \* the last operation and what its caller observed

vars == <<now, data, services, _links, handlers, timers, calls, _attr_is_locked,
          _unlock_timer, lock_timers, last>>

-----------------------------------------------------------------------------
(* Bounds of the model *)

MaxCalls == 1       \* guest POSTs suspended in their unlock call at once
MaxTime == 1801     \* the clock stops here, seconds

(* Program constants *)

SecondsPerHour == 3600
SHARE_LINK_DEFAULT_TTL_HOURS == 12
_AUTO_LOCK_DELAY == 5

None == "None"
SHARE_LINK_WEBHOOK_PREFIX == "rosdomofon_share_"
SERVICE_GENERATE_LINK == "generate_share_link"
PublicUrl == "https://hub.example"

Entries == {1, 2}
\* the values uuid.uuid4().hex takes (32 hex digits in the code)
Ids == {"3f2a9c0e5b7d41f6a8c2e0b19d4f7a63", "c71e08b4d25f4a9e93b6f1c07a5d2e84"}
\* lock.front_door is a RosdomofonLock of this integration; lock.gate is an
\* entity id of some other platform (generate accepts any entity id).
RosdomofonEntity == "lock.front_door"
\* the config entry whose lock platform created lock.front_door
LockEntry == 1
Entities == {RosdomofonEntity, "lock.gate"}
\* ttl_hours offered to generate, in quarter-hours: 0.25 h, 0.5 h and 168.25 h
TTLChoices == {1, 2, 673}
\* how far the clock moves in one step, seconds
TickSteps == {1800, 1801}
Methods == {"GET", "POST"}
\* camera ids of the cloud, and hosts a stream request may name
CameraIds == {"39167", "40212"}
RdvaHost == "s.rdva68.rosdomofon.com"
StreamHosts == {RdvaHost, "s.example.com", "evil.com"}
\* hass.data[DOMAIN] without the "_camera_hosts" key
NoCameraHosts == [present |-> FALSE]
\* what the camera platform learns at set-up: nothing (no token, the request
\* fails, no cameras), or for each camera the host "s." + rdva.uri, None for a
\* camera that is not listed or has no rdva uri
NoCameras == [fetched |-> FALSE]
CameraReports ==
    {NoCameras} \cup
    {[fetched |-> TRUE, hosts |-> h] :
        h \in {[c \in CameraIds |-> IF c = "39167" THEN x ELSE "None"] :
                  x \in {RdvaHost, "s.example.com", "None"}}}
ExcTexts == {"ServiceNotFound: lock.unlock", "adapter 12345 timed out"}

\* what the host answers when asked for its external URL: network.get_url
\* returns a URL, or raises NoURLAvailableError
HostUrls == {None, PublicUrl}

\* State.name of an entity that has a state
StateName(entity_id) == IF entity_id = RosdomofonEntity THEN "Front door" ELSE ""

\* what hass.states.get(entity_id) answers: None, or a state with that name
HostStates(entity_id) == {None, StateName(entity_id)}

NoLink == [present |-> FALSE]

\* vol.Range(min=0.5, max=168) of the generate_share_link service schema, in
\* quarter-hours
SERVICE_TTL_RANGE == [min |-> 2, max |-> 672]

TTLInRange(q) == q >= SERVICE_TTL_RANGE.min /\ q <= SERVICE_TTL_RANGE.max

\* the entries whose data (and share manager) is in hass.data[DOMAIN]
Loaded == {data.entries[k] : k \in 1..Len(data.entries)}

-----------------------------------------------------------------------------
(* ShareLink *)

\* ttl_hours * 3600 for ttl_hours = q/4
TTLSeconds(q) == (q * SecondsPerHour) \div 4

ShareLink(webhook_id, entity_id, created_at, ttl_q, cancel_expiry) ==
    [present |-> TRUE, webhook_id |-> webhook_id, entity_id |-> entity_id,
     created_at |-> created_at, ttl_hours |-> ttl_q,
     cancel_expiry |-> cancel_expiry]

expires_at(link) == link.created_at + TTLSeconds(link.ttl_hours)

is_expired(link, t) == t > expires_at(link)

-----------------------------------------------------------------------------
(* What the caller of an operation observes *)

\* mgr is 0 and id is "" where the operation has none; status is a string
Outcome(op, mgr, id, arg, status, body) ==
    [op |-> op, mgr |-> mgr, id |-> id, arg |-> arg, status |-> status,
     body |-> body]

\* a variant of the URL below that leaves the share prefix out of the path
UrlWithoutPrefix(base, webhook_id) == <<base, "/api/webhook/", webhook_id>>

Url(base, webhook_id) == <<base, "/api/webhook/", SHARE_LINK_WEBHOOK_PREFIX, webhook_id>>

\* url.split("/")[-1] without the prefix: the id a guest request carries
IdOfUrl(url) == url[4]

-----------------------------------------------------------------------------
(* ShareLinkManager.generate *)

\* network.get_url answered host_url; NoURLAvailableError becomes None
\* a variant of get_external_url that falls back to the internal address
get_external_url_or_internal(host_url) ==
    IF host_url = None THEN "http://homeassistant.local:8123" ELSE host_url

get_external_url(host_url) == host_url

\* webhook.async_register of the host: a second registration of an id raises
\* a variant of the registration below that accepts an id already registered
RegisterNeverRaises(webhook_id) == FALSE

RegisterRaises(webhook_id) == handlers[webhook_id] # 0

\* ShareLink(webhook_id=..., entity_id=..., ttl_hours=...): created_at defaults
\* to time.time(), cancel_expiry to None
\* a variant of the record built below that clamps ttl_hours into the range of
\* the service schema
NewShareLinkClamped(webhook_id, entity_id, ttl_q) ==
    ShareLink(webhook_id, entity_id, now,
              IF ttl_q < SERVICE_TTL_RANGE.min THEN SERVICE_TTL_RANGE.min
              ELSE IF ttl_q > SERVICE_TTL_RANGE.max THEN SERVICE_TTL_RANGE.max
              ELSE ttl_q,
              None)

NewShareLink(webhook_id, entity_id, ttl_q) ==
    ShareLink(webhook_id, entity_id, now, ttl_q, None)

\* a variant of the delay below that arms the timer with no delay
ExpiryDueAtOnce(ttl_q) == now

\* a variant of the delay below that arms the timer for twice the TTL
ExpiryDueTwice(ttl_q) == now + 2 * TTLSeconds(ttl_q)

\* async_call_later(hass, ttl_hours * 3600, ...): the time the timer is armed for
ExpiryDue(ttl_q) == now + TTLSeconds(ttl_q)

\* uuid.uuid4().hex is drawn (hex) only once the external URL is known
\* What generate does to the registry, the handlers and the timers, and what
\* it returns (url) or raises (status)
GenerateResult(m, entity_id, ttl_q, hex, host_url) ==
    LET unchanged == [links |-> _links, handlers |-> handlers, timers |-> timers]
    IN IF get_external_url(host_url) = None
       THEN [status |-> "ExternalURLNotAvailable", id |-> "", url |-> None,
             kept |-> unchanged]
       ELSE IF RegisterRaises(hex)
       THEN [status |-> "ValueError", id |-> hex, url |-> None, kept |-> unchanged]
       ELSE LET due == ExpiryDue(ttl_q)
                link == [NewShareLink(hex, entity_id, ttl_q)
                            EXCEPT !.cancel_expiry = due]
            IN [status |-> "ok", id |-> hex,
                url |-> Url(get_external_url(host_url), hex),
                kept |-> [links |-> [_links EXCEPT ![m][hex] = link],
                          handlers |-> [handlers EXCEPT ![hex] = m],
                          timers |-> timers \cup
                                       {[mgr |-> m, id |-> hex, due |-> due]}]]

generate(m, entity_id, ttl_q, hex, host_url) ==
    /\ m \in Loaded
    /\ LET r == GenerateResult(m, entity_id, ttl_q, hex, host_url)
       IN /\ _links' = r.kept.links
          /\ handlers' = r.kept.handlers
          /\ timers' = r.kept.timers
          /\ last' = Outcome("generate", m, r.id, host_url, r.status, r.url)
    /\ UNCHANGED <<now, data, services, calls, _attr_is_locked, _unlock_timer, lock_timers>>

-----------------------------------------------------------------------------
(* ShareLinkManager.revoke, revoke_all and the expiry callback *)

\* cancel_expiry(): the host drops the timer the handle stands for, if pending
\* a variant of the cancellation below that leaves the timer armed
CancelTimerForgotten(ts, m, link) == ts

CancelTimer(ts, m, link) ==
    ts \ {[mgr |-> m, id |-> link.webhook_id, due |-> link.cancel_expiry]}

\* a variant of async_unregister that leaves the handler registered
UnregisterForgotten(hs, webhook_id) == hs

\* webhook.async_unregister: pops the id, whoever registered it
Unregister(hs, webhook_id) == [hs EXCEPT ![webhook_id] = 0]

\* What an operation on the registry works on: the registry, the host's timers
\* and handlers, and the bags of ids for which it has called cancel_expiry()
\* and webhook.async_unregister so far.
RegistryState(links, ts, hs) ==
    [links |-> links, timers |-> ts, handlers |-> hs,
     cancelled |-> EmptyBag, unregistered |-> EmptyBag]

\* the host calls an operation made, as its caller's mocks would count them
HostCalls(st) == [cancelled |-> st.cancelled, unregistered |-> st.unregistered]

\* a variant of revoke that unregisters the handler before looking the link up
RevokeEffectUnregisterFirst(m, webhook_id, st) ==
    LET link == st.links[m][webhook_id]
    IN IF ~link.present
       THEN [st EXCEPT !.handlers = Unregister(st.handlers, webhook_id),
                       !.unregistered = @ (+) SetToBag({webhook_id})]
       ELSE [st EXCEPT !.links = [st.links EXCEPT ![m][webhook_id] = NoLink],
                       !.timers = CancelTimer(st.timers, m, link),
                       !.handlers = Unregister(st.handlers, webhook_id),
                       !.cancelled = @ (+) SetToBag({webhook_id}),
                       !.unregistered = @ (+) SetToBag({webhook_id})]

\* revoke(webhook_id) on manager m
RevokeEffect(m, webhook_id, st) ==
    LET link == st.links[m][webhook_id]
    IN IF ~link.present THEN st
       ELSE [st EXCEPT !.links = [st.links EXCEPT ![m][webhook_id] = NoLink],
                       !.timers = CancelTimer(st.timers, m, link),
                       !.handlers = Unregister(st.handlers, webhook_id),
                       !.cancelled = @ (+) SetToBag({webhook_id}),
                       !.unregistered = @ (+) SetToBag({webhook_id})]

revoke(m, webhook_id) ==
    /\ m \in Loaded
    /\ LET st == RevokeEffect(m, webhook_id, RegistryState(_links, timers, handlers))
       IN /\ _links' = st.links
          /\ timers' = st.timers
          /\ handlers' = st.handlers
          /\ last' = Outcome("revoke", m, webhook_id, None, "ok", HostCalls(st))
    /\ UNCHANGED <<now, data, services, calls, _attr_is_locked,
                   _unlock_timer, lock_timers>>

\* revoke applied to every id of list(self._links), in any order
RECURSIVE RevokeEach(_, _, _)
RevokeEach(m, ids, st) ==
    IF ids = {} THEN st
    ELSE LET i == CHOOSE x \in ids : TRUE
         IN RevokeEach(m, ids \ {i}, RevokeEffect(m, i, st))

\* a variant of revoke_all that stops after the first link
RevokeAllEffectFirstOnly(m, st) ==
    LET ids == {i \in Ids : st.links[m][i].present}
    IN IF ids = {} THEN st ELSE RevokeEffect(m, CHOOSE x \in ids : TRUE, st)

RevokeAllEffect(m, st) ==
    RevokeEach(m, {i \in Ids : st.links[m][i].present}, st)

revoke_all(m) ==
    /\ m \in Loaded
    /\ LET st == RevokeAllEffect(m, RegistryState(_links, timers, handlers))
       IN /\ _links' = st.links
          /\ timers' = st.timers
          /\ handlers' = st.handlers
          /\ last' = Outcome("revoke_all", m, "", None, "ok", HostCalls(st))
    /\ UNCHANGED <<now, data, services, calls, _attr_is_locked,
                   _unlock_timer, lock_timers>>

\* a variant of the callback below that removes the record with
\* del self._links[webhook_id] and so fails when the record is gone
_expire_strict(t) ==
    /\ t \in timers
    /\ now >= t.due
    /\ timers' = timers \ {t}
    /\ IF _links[t.mgr][t.id].present
       THEN /\ _links' = [_links EXCEPT ![t.mgr][t.id] = NoLink]
            /\ handlers' = Unregister(handlers, t.id)
            /\ last' = Outcome("expire", t.mgr, t.id, None, "ok",
                               [popped |-> TRUE, registered |-> handlers[t.id] # 0])
       ELSE /\ UNCHANGED <<_links, handlers>>
            /\ last' = Outcome("expire", t.mgr, t.id, None, "KeyError",
                               [popped |-> FALSE, registered |-> handlers[t.id] # 0])
    /\ UNCHANGED <<now, data, services, calls, _attr_is_locked,
                   _unlock_timer, lock_timers>>

\* _make_expiry_callback(webhook_id)._expire, run by the host no earlier than
\* the time the timer t was armed for: self._links.pop(webhook_id, None), then
\* async_unregister with ValueError swallowed.  The outcome tells whether the
\* pop found a record and whether the id was registered.
_expire(t) ==
    /\ t \in timers
    /\ now >= t.due
    /\ timers' = timers \ {t}
    /\ _links' = [_links EXCEPT ![t.mgr][t.id] = NoLink]
    /\ handlers' = Unregister(handlers, t.id)
    /\ last' = Outcome("expire", t.mgr, t.id, None, "ok",
                       [popped |-> _links[t.mgr][t.id].present,
                        registered |-> handlers[t.id] # 0])
    /\ UNCHANGED <<now, data, services, calls, _attr_is_locked,
                   _unlock_timer, lock_timers>>

-----------------------------------------------------------------------------
(* ShareLinkManager._handle_webhook *)

NameError == [raised |-> "NameError"]

\* _handle_webhook calls _html_page(title, message, success=False) for its 410
\* and 404 pages, but share.py neither defines nor imports that name (it only
\* defines _html_page_with_button): evaluating the call raises NameError.
_html_page(title, message) == NameError

_html_page_with_button(display_name, remaining_hours, remaining_minutes) ==
    <<"Vam predostavili vremennyj klyuch dlya otkrytiya", display_name,
      "Klyuch dejstvuet:", remaining_hours, "ch", remaining_minutes, "m">>

\* web.Response(text=..., content_type="text/html", status=...): the arguments
\* are evaluated first, so an argument that raises leaves no response
web_Response(text, status) ==
    IF text = NameError THEN [status |-> "NameError", body |-> None]
    ELSE [status |-> status, body |-> text]

web_json_response(payload, status) == [status |-> status, body |-> payload]

Max(a, b) == IF a >= b THEN a ELSE b

\* a fire-and-forget variant of the service call below (blocking=False)
ServiceCallNonBlocking(m, webhook_id, entity_id, display_name) ==
    [mgr |-> m, id |-> webhook_id, domain |-> "lock", service |-> "unlock",
     entity_id |-> entity_id, blocking |-> FALSE, display_name |-> display_name,
     stage |-> "called"]

\* a variant of the service call below that always targets the integration's
\* own lock, whatever entity the link was issued for
ServiceCallOwnLock(m, webhook_id, entity_id, display_name) ==
    [mgr |-> m, id |-> webhook_id, domain |-> "lock", service |-> "unlock",
     entity_id |-> RosdomofonEntity, blocking |-> TRUE, display_name |-> display_name,
     stage |-> "called"]

\* hass.services.async_call("lock", "unlock", {"entity_id": entity_id}, blocking=True);
\* stage tells where the called unlock stands: "called", or "activating" once
\* it is suspended in its activation request
ServiceCall(m, webhook_id, entity_id, display_name) ==
    [mgr |-> m, id |-> webhook_id, domain |-> "lock", service |-> "unlock",
     entity_id |-> entity_id, blocking |-> TRUE, display_name |-> display_name,
     stage |-> "called"]

\* the part of the handler that answers without suspending: lines 140-187
HandlerAnswer(m, webhook_id, method, state) ==
    LET link == _links[m][webhook_id]
    IN IF ~link.present \/ is_expired(link, now)
       THEN web_Response(_html_page("Ssylka nedejstvitelna",
                "Srok dejstviya ssylki istyok ili ona byla otozvana."), "410")
       ELSE IF state = None
       THEN web_Response(_html_page("Oshibka",
                "Zamok ne najden. Vozmozhno, integraciya byla perenastroena."), "404")
       ELSE LET display_name == IF state # "" THEN state ELSE "Zamok"
                remaining == Max(0, expires_at(link) - now)
                remaining_hours == remaining \div 3600
                remaining_minutes == (remaining % 3600) \div 60
            IN IF method = "GET"
               THEN web_Response(_html_page_with_button(display_name,
                        remaining_hours, remaining_minutes), "200")
               ELSE [status |-> "await", body |-> display_name]

\* a variant of the handler below that drops the record of an expired link
\* when a request finds it
_handle_webhook_dropping_expired(m, webhook_id, method, state) ==
    /\ m \in Loaded
    /\ state \in (IF _links[m][webhook_id].present
                  THEN HostStates(_links[m][webhook_id].entity_id) ELSE {None})
    /\ LET r == HandlerAnswer(m, webhook_id, method, state)
           link == _links[m][webhook_id]
       IN /\ IF r.status = "await"
             THEN /\ calls' = calls (+) SetToBag({
                         ServiceCall(m, webhook_id, link.entity_id, r.body)})
                  /\ last' = Outcome("request", m, webhook_id, <<method, state>>, "await", None)
             ELSE /\ calls' = calls
                  /\ last' = Outcome("request", m, webhook_id, <<method, state>>,
                                     r.status, r.body)
          /\ _links' = IF link.present /\ is_expired(link, now)
                       THEN [_links EXCEPT ![m][webhook_id] = NoLink] ELSE _links
    /\ UNCHANGED <<now, data, services, handlers, timers,
                   _attr_is_locked, _unlock_timer, lock_timers>>

\* a variant of the handler below that serves one unlock per link at a time:
\* a POST on a link with a call in flight is turned away
_handle_webhook_one_at_a_time(m, webhook_id, method, state) ==
    /\ m \in Loaded
    /\ state \in (IF _links[m][webhook_id].present
                  THEN HostStates(_links[m][webhook_id].entity_id) ELSE {None})
    /\ LET r == HandlerAnswer(m, webhook_id, method, state)
           busy == \E c \in BagToSet(calls) : c.mgr = m /\ c.id = webhook_id
       IN IF r.status = "await" /\ ~busy
          THEN /\ calls' = calls (+) SetToBag({
                      ServiceCall(m, webhook_id, _links[m][webhook_id].entity_id, r.body)})
               /\ last' = Outcome("request", m, webhook_id, <<method, state>>, "await", None)
          ELSE /\ calls' = calls
               /\ last' = Outcome("request", m, webhook_id, <<method, state>>,
                                  IF r.status = "await" THEN "409" ELSE r.status, r.body)
    /\ UNCHANGED <<now, data, services, _links, handlers, timers,
                   _attr_is_locked, _unlock_timer, lock_timers>>

\* the states the host may hold for a request that the model takes while
\* limit bounds the calls in flight: a request that starts a call is taken
\* only below the limit
StatesWithin(limit, m, webhook_id, method, states) ==
    IF BagCardinality(calls) < limit THEN states
    ELSE {st \in states : HandlerAnswer(m, webhook_id, method, st).status # "await"}

_handle_webhook(m, webhook_id, method, state) ==
    /\ m \in Loaded
    /\ state \in (IF _links[m][webhook_id].present
                  THEN HostStates(_links[m][webhook_id].entity_id) ELSE {None})
    /\ LET r == HandlerAnswer(m, webhook_id, method, state)
       IN IF r.status = "await"
          THEN /\ calls' = calls (+) SetToBag({
                      ServiceCall(m, webhook_id, _links[m][webhook_id].entity_id, r.body)})
               /\ last' = Outcome("request", m, webhook_id, <<method, state>>, "await", None)
          ELSE /\ calls' = calls
               /\ last' = Outcome("request", m, webhook_id, <<method, state>>, r.status, r.body)
    /\ UNCHANGED <<now, data, services, _links, handlers, timers,
                   _attr_is_locked, _unlock_timer, lock_timers>>

\* a variant of the answer below that reports success whatever the call did
AfterCallAlwaysOk(c, exc) ==
    web_json_response(
        [status |-> "ok", title |-> <<c.display_name, "otkryta">>,
         message |-> <<c.display_name, "uspeshno otkryta.">>],
        "200")

\* the handler's answer once its service call has raised exc, or returned (None)
AfterCall(c, exc) ==
    IF exc # None
    THEN web_json_response(
             [status |-> "error", error |-> exc, title |-> "Oshibka",
              message |-> <<"Ne udalos otkryt", c.display_name, "Poprobujte pozzhe.">>],
             "500")
    ELSE web_json_response(
             [status |-> "ok", title |-> <<c.display_name, "otkryta">>,
              message |-> <<c.display_name, "uspeshno otkryta.">>],
             "200")

\* the handler suspended in call c resumes and answers
Resume(c, exc, how) ==
    LET r == AfterCall(c, exc)
    IN /\ calls' = calls (-) SetToBag({c})
       /\ last' = Outcome("response", c.mgr, c.id, how, r.status, r.body)

-----------------------------------------------------------------------------
(* The lock.unlock service call and RosdomofonLock.async_unlock *)

\* The host's service layer fails the call before any entity method runs (the
\* service is not registered, the entity is not loaded), or the unlock of an
\* entity of another platform raises.
CallRaises(c, text) ==
    /\ BagIn(c, calls)
    /\ Resume(c, text, "raised")
    /\ UNCHANGED <<now, data, services, _links, handlers, timers, _attr_is_locked,
                   _unlock_timer, lock_timers>>

\* the unlock of an entity of another platform returns
ForeignUnlockReturns(c) ==
    /\ BagIn(c, calls)
    /\ c.entity_id # RosdomofonEntity
    /\ Resume(c, None, "foreign")
    /\ UNCHANGED <<now, data, services, _links, handlers, timers, _attr_is_locked,
                   _unlock_timer, lock_timers>>

\* a variant of the cancellation below that leaves the old callback pending
CancelAutoLockForgotten(pending, handle) == pending

\* self._unlock_timer() when the handle is not None: the host drops the callback
CancelAutoLock(pending, handle) ==
    IF handle = <<>> THEN pending ELSE pending (-) SetToBag({handle[1]})

\* what the cloud does with _activate_key: HTTP 200, another status, or the
\* request raises
ActivateResults == {"200", "non200", "raises"}

\* a variant of the result below that does not look at the activation's answer
UnlockResultIgnoringActivation(token_ok, activation) ==
    IF ~token_ok THEN "token_refresh_failed" ELSE "opened"

\* RosdomofonLock.async_unlock up to its three early returns: "opened" when the
\* lock was activated, else the reason it gave up.  It raises in no case.
UnlockResult(token_ok, activation) ==
    IF ~token_ok THEN "token_refresh_failed"
    ELSE IF activation = "raises" THEN "activation_raised"
    ELSE IF activation # "200" THEN "activation_failed"
    ELSE "opened"

\* a variant of the unlock below after which the link that was used is gone
async_unlock_single_use(c, token_ok, activation) ==
    /\ BagIn(c, calls)
    /\ c.entity_id = RosdomofonEntity
    /\ LockEntry \in Loaded
    /\ LET res == UnlockResult(token_ok, activation)
       IN /\ IF res = "opened"
             THEN /\ _attr_is_locked' = FALSE
                  /\ _unlock_timer' = <<now + _AUTO_LOCK_DELAY>>
                  /\ lock_timers' = CancelAutoLock(lock_timers, _unlock_timer)
                                       (+) SetToBag({now + _AUTO_LOCK_DELAY})
                  /\ _links' = [_links EXCEPT ![c.mgr][c.id] = NoLink]
             ELSE UNCHANGED <<_attr_is_locked, _unlock_timer, lock_timers, _links>>
          /\ Resume(c, None, res)
    /\ UNCHANGED <<now, data, services, handlers, timers>>

\* RosdomofonLock.async_unlock, run for service call c.  Its two awaits
\* (ensure_valid_token, the executor job) change nothing this model holds, so
\* the call is one step: lines 134-144 follow the last await without suspension.
async_unlock(c, token_ok, activation) ==
    /\ BagIn(c, calls)
    /\ c.entity_id = RosdomofonEntity
    /\ LockEntry \in Loaded
    /\ LET res == UnlockResult(token_ok, activation)
       IN /\ IF res = "opened"
             THEN /\ _attr_is_locked' = FALSE
                  /\ _unlock_timer' = <<now + _AUTO_LOCK_DELAY>>
                  /\ lock_timers' = CancelAutoLock(lock_timers, _unlock_timer)
                                       (+) SetToBag({now + _AUTO_LOCK_DELAY})
             ELSE UNCHANGED <<_attr_is_locked, _unlock_timer, lock_timers>>
          /\ Resume(c, None, res)
    /\ UNCHANGED <<now, data, services, _links, handlers, timers>>

\* RosdomofonLock._async_auto_lock
_async_auto_lock ==
    /\ \E due \in BagToSet(lock_timers) :
          /\ now >= due
          /\ lock_timers' = lock_timers (-) SetToBag({due})
    /\ _attr_is_locked' = TRUE
    /\ _unlock_timer' = <<>>
    /\ last' = Outcome("auto_lock", 0, "", None, "ok", None)
    /\ UNCHANGED <<now, data, services, _links, handlers, timers, calls>>

-----------------------------------------------------------------------------
(* The clock *)

Env == Outcome("env", 0, "", None, None, None)

Tick(d) ==
    /\ now + d <= MaxTime
    /\ now' = now + d
    /\ last' = Env
    /\ UNCHANGED <<data, services, _links, handlers, timers, calls, _attr_is_locked,
                   _unlock_timer, lock_timers>>

-----------------------------------------------------------------------------
Init ==
    /\ now = 0
    /\ data = [entries |-> <<1>>, _stream_proxy_registered |-> TRUE,
               _camera_hosts |-> NoCameraHosts]
    /\ services = {SERVICE_GENERATE_LINK}
    /\ _links = [m \in Entries |-> [i \in Ids |-> NoLink]]
    /\ handlers = [i \in Ids |-> 0]
    /\ timers = {}
    /\ calls = EmptyBag
    /\ _attr_is_locked = TRUE
    /\ _unlock_timer = <<>>
    /\ lock_timers = EmptyBag
    /\ last = Env

Next ==
    \/ \E m \in Entries, e \in Entities, q \in TTLChoices, h \in Ids, u \in HostUrls :
          generate(m, e, q, h, u)
    \/ \E m \in Entries, i \in Ids : revoke(m, i)
    \/ \E m \in Entries : revoke_all(m)
    \/ \E t \in timers : _expire(t)
    \/ \E m \in Entries, i \in Ids, meth \in Methods :
          \E st \in StatesWithin(MaxCalls, m, i, meth,
                                  UNION {HostStates(e) : e \in Entities}) :
             _handle_webhook(m, i, meth, st)
    \/ \E c \in BagToSet(calls), x \in ExcTexts : CallRaises(c, x)
    \/ \E c \in BagToSet(calls) : ForeignUnlockReturns(c)
    \/ \E c \in BagToSet(calls), ok \in BOOLEAN, r \in ActivateResults :
          async_unlock(c, ok, r)
    \/ _async_auto_lock
    \/ \E d \in TickSteps : Tick(d)

Spec == Init /\ [][Next]_vars

-----------------------------------------------------------------------------
(* Config entries: async_setup_entry and async_unload_entry of __init__.py *)

\* hass.data.get(DOMAIN) is truthy: the dict holds an entry, the proxy flag or
\* the camera hosts
DomainDataTruthy(d) ==
    d.entries # <<>> \/ d._stream_proxy_registered \/ d._camera_hosts.present

\* camera.async_setup_entry: setdefault("_camera_hosts", {}) and one item per
\* camera whose details carry an rdva uri
RecordCameraHosts(known, cams) ==
    IF ~cams.fetched THEN known
    ELSE [present |-> TRUE,
          hosts |-> [c \in CameraIds |->
                        IF cams.hosts[c] # None THEN cams.hosts[c]
                        ELSE IF known.present THEN known.hosts[c] ELSE None]]

\* async_setup_entry(hass, entry) for an entry that is not loaded.  Of the
\* platforms set up at the end, the lock platform creates the RosdomofonLock
\* of its entry and the camera platform records the hosts of the cameras.
async_setup_entry(m, token_ok, cams) ==
    /\ m \in Entries \ Loaded
    /\ IF ~token_ok
       THEN /\ last' = Outcome("setup", m, "", None, "ConfigEntryNotReady", None)
            /\ UNCHANGED <<data, services, _links, _attr_is_locked, _unlock_timer, lock_timers>>
       ELSE /\ _links' = [_links EXCEPT ![m] = [i \in Ids |-> NoLink]]
            /\ data' = [entries |-> Append(data.entries, m),
                        _stream_proxy_registered |-> TRUE,
                        _camera_hosts |-> RecordCameraHosts(data._camera_hosts, cams)]
            /\ services' = services \cup {SERVICE_GENERATE_LINK}
            /\ IF m = LockEntry
               THEN /\ _attr_is_locked' = TRUE
                    /\ _unlock_timer' = <<>>
                    /\ UNCHANGED lock_timers
               ELSE UNCHANGED <<_attr_is_locked, _unlock_timer, lock_timers>>
            /\ last' = Outcome("setup", m, "", None, "True", None)
    /\ UNCHANGED <<now, handlers, timers, calls>>

\* a variant of the unload below that drops the entry's data without calling
\* revoke_all on its share manager
async_unload_entry_without_revoke(m, unload_ok) ==
    /\ m \in Loaded
    /\ IF ~unload_ok
       THEN /\ last' = Outcome("unload", m, "", None, "False", None)
            /\ UNCHANGED <<data, _unlock_timer, lock_timers>>
       ELSE /\ data' = [data EXCEPT !.entries = SelectSeq(@, LAMBDA x : x # m)]
            /\ _unlock_timer' = IF m = LockEntry THEN <<>> ELSE _unlock_timer
            /\ lock_timers' = IF m = LockEntry
                              THEN CancelAutoLock(lock_timers, _unlock_timer)
                              ELSE lock_timers
            /\ last' = Outcome("unload", m, "", None, "True",
                               HostCalls(RegistryState(_links, timers, handlers)))
    /\ UNCHANGED <<now, services, _links, handlers, timers, calls, _attr_is_locked>>

\* async_unload_entry(hass, entry); unload_ok is what async_unload_platforms
\* returned.  Unloading the lock platform removes its entity, which cancels
\* the auto-lock timer (async_will_remove_from_hass).
async_unload_entry(m, unload_ok) ==
    /\ m \in Loaded
    /\ IF ~unload_ok
       THEN /\ last' = Outcome("unload", m, "", None, "False", None)
            /\ UNCHANGED <<data, services, _links, handlers, timers, _unlock_timer, lock_timers>>
       ELSE LET st == RevokeAllEffect(m, RegistryState(_links, timers, handlers))
                popped == [data EXCEPT !.entries = SelectSeq(@, LAMBDA x : x # m)]
            IN /\ data' = popped
               /\ _links' = st.links
               /\ timers' = st.timers
               /\ handlers' = st.handlers
               /\ services' = IF DomainDataTruthy(popped) THEN services
                              ELSE services \ {SERVICE_GENERATE_LINK}
               /\ _unlock_timer' = IF m = LockEntry THEN <<>> ELSE _unlock_timer
               /\ lock_timers' = IF m = LockEntry
                                 THEN CancelAutoLock(lock_timers, _unlock_timer)
                                 ELSE lock_timers
               /\ last' = Outcome("unload", m, "", None, "True", HostCalls(st))
    /\ UNCHANGED <<now, calls, _attr_is_locked>>

\* the host before any entry is set up
InitEntries ==
    /\ now = 0
    /\ data = [entries |-> <<>>, _stream_proxy_registered |-> FALSE,
               _camera_hosts |-> NoCameraHosts]
    /\ services = {}
    /\ _links = [m \in Entries |-> [i \in Ids |-> NoLink]]
    /\ handlers = [i \in Ids |-> 0]
    /\ timers = {}
    /\ calls = EmptyBag
    /\ _attr_is_locked = TRUE
    /\ _unlock_timer = <<>>
    /\ lock_timers = EmptyBag
    /\ last = Env

\* Links are issued here for the integration's own lock and with the shortest
\* TTL of the service's range.
NextEntries ==
    \/ \E m \in Entries, ok \in BOOLEAN : async_setup_entry(m, ok, NoCameras)
    \/ \E m \in Entries, h \in Ids, u \in HostUrls :
          generate(m, RosdomofonEntity, SERVICE_TTL_RANGE.min, h, u)
    \/ \E m \in Entries, i \in Ids : revoke(m, i)
    \/ \E m \in Entries : revoke_all(m)
    \/ \E t \in timers : _expire(t)
    \/ \E m \in Entries, i \in Ids, meth \in Methods :
          \E st \in StatesWithin(MaxCalls, m, i, meth, HostStates(RosdomofonEntity)) :
             _handle_webhook(m, i, meth, st)
    \/ \E c \in BagToSet(calls), x \in ExcTexts : CallRaises(c, x)
    \/ \E c \in BagToSet(calls), ok \in BOOLEAN, r \in ActivateResults :
          async_unlock(c, ok, r)
    \/ _async_auto_lock
    \/ \E d \in TickSteps : Tick(d)
    \/ \E m \in Entries, ok \in BOOLEAN : async_unload_entry(m, ok)

SpecEntries == InitEntries /\ [][NextEntries]_vars

-----------------------------------------------------------------------------
(* The platforms' entry points: the stream proxy view and the share button *)

StreamPaths == {"", "seg/0001.ts"}
\* what the upstream server does with the proxied request
UpstreamResults == {"200", "404", "RequestException"}

\* no HTTP request left the host
NoRequest == <<>>

\* requests.get(target_url, headers={"Authorization": "Bearer <token>", ...})
UpstreamRequest(host, path) ==
    <<[url |-> <<"https://", host, "/", path>>, Authorization |-> "Bearer access_token"]>>

\* the first item of hass.data[DOMAIN] that is a dict with a "token_manager":
\* the first loaded entry, 0 when there is none
FirstTokenManager == IF data.entries = <<>> THEN 0 ELSE data.entries[1]

\* RosdomofonStreamProxyView.get: the status of the response and the request
\* sent upstream.  The view is served without authentication.
ProxyAnswer(camera_id, host, path, token_ok, upstream) ==
    LET target_path == IF path = "" THEN <<"live/", camera_id, ".m3u8">> ELSE <<path>>
    IN IF FirstTokenManager = 0
       THEN [status |-> "500", requested |-> NoRequest]
       ELSE IF ~token_ok
       THEN [status |-> "401", requested |-> NoRequest]
       ELSE [status |-> IF upstream = "RequestException" THEN "502" ELSE upstream,
             requested |-> UpstreamRequest(host, target_path)]

get(camera_id, host, path, token_ok, upstream) ==
    /\ data._stream_proxy_registered
    /\ LET a == ProxyAnswer(camera_id, host, path, token_ok, upstream)
       IN last' = Outcome("stream", FirstTokenManager, camera_id,
                          [host |-> host, path |-> path, token_ok |-> token_ok],
                          a.status, a.requested)
    /\ UNCHANGED <<now, data, services, _links, handlers, timers, calls,
                   _attr_is_locked, _unlock_timer, lock_timers>>

\* the share link's TTL of the button, in quarter-hours
ButtonTTL == 4 * SHARE_LINK_DEFAULT_TTL_HOURS

\* RosdomofonShareButton.async_press of the button of entry m's lock;
\* in_registry tells whether the host's entity registry holds the lock entity.
\* ExternalURLNotAvailable is caught and answered with a notification; any
\* other exception of generate propagates.
async_press(m, hex, host_url, in_registry) ==
    /\ m = LockEntry
    /\ m \in Loaded
    /\ LET r == GenerateResult(m, RosdomofonEntity, ButtonTTL, hex, host_url)
           arg == [host_url |-> host_url, in_registry |-> in_registry]
       IN /\ _links' = r.kept.links
          /\ handlers' = r.kept.handlers
          /\ timers' = r.kept.timers
          /\ last' = IF r.status = "ExternalURLNotAvailable"
                     THEN Outcome("press", m, r.id, arg, "returned",
                                  [notification_id |-> <<"rosdomofon_no_external_url">>,
                                   url |-> None])
                     ELSE IF r.status # "ok"
                     THEN Outcome("press", m, r.id, arg, r.status,
                                  [notification_id |-> <<>>, url |-> None])
                     ELSE Outcome("press", m, r.id, arg, "returned",
                                  [notification_id |-> <<"rosdomofon_share_", RosdomofonEntity>>,
                                   url |-> r.url])
    /\ UNCHANGED <<now, data, services, calls, _attr_is_locked, _unlock_timer, lock_timers>>

\* entry 1 is loaded and its camera platform has recorded what the cloud
\* reported
InitPlatforms ==
    /\ now = 0
    /\ \E r \in CameraReports :
          data = [entries |-> <<1>>, _stream_proxy_registered |-> TRUE,
                  _camera_hosts |-> RecordCameraHosts(NoCameraHosts, r)]
    /\ services = {SERVICE_GENERATE_LINK}
    /\ _links = [m \in Entries |-> [i \in Ids |-> NoLink]]
    /\ handlers = [i \in Ids |-> 0]
    /\ timers = {}
    /\ calls = EmptyBag
    /\ _attr_is_locked = TRUE
    /\ _unlock_timer = <<>>
    /\ lock_timers = EmptyBag
    /\ last = Env

NextPlatforms ==
    \/ \E c \in CameraIds \cup {"99999"}, h \in StreamHosts, p \in StreamPaths,
          ok \in BOOLEAN, up \in UpstreamResults : get(c, h, p, ok, up)
    \/ \E m \in Entries, h \in Ids, u \in HostUrls, reg \in BOOLEAN :
          async_press(m, h, u, reg)
    \/ \E m \in Entries, i \in Ids : revoke(m, i)
    \/ \E d \in TickSteps : Tick(d)

SpecPlatforms == InitPlatforms /\ [][NextPlatforms]_vars

-----------------------------------------------------------------------------
(* Overlapping guest requests *)

\* calls in flight at the same time
MaxOverlap == 2

\* Guests, the owner and the clock around links of entry 1 for the
\* integration's own lock, which answers every activation.
NextOverlap ==
    \/ \E h \in Ids : generate(LockEntry, RosdomofonEntity, SERVICE_TTL_RANGE.min, h, PublicUrl)
    \/ \E i \in Ids : revoke(LockEntry, i)
    \/ \E t \in timers : _expire(t)
    \/ \E i \in Ids, meth \in Methods :
          \E st \in StatesWithin(MaxOverlap, LockEntry, i, meth,
                                  {StateName(RosdomofonEntity)}) :
             _handle_webhook(LockEntry, i, meth, st)
    \/ \E c \in BagToSet(calls), r \in ActivateResults : async_unlock(c, TRUE, r)
    \/ _async_auto_lock
    \/ \E d \in TickSteps : Tick(d)

SpecOverlap == Init /\ [][NextOverlap]_vars

-----------------------------------------------------------------------------
(* The expiry callback as a function of the registry it finds *)

\* The callbacks of entry 1's manager come due over every registry they may be
\* handed: each id with or without its record, with or without its handler,
\* with or without a pending callback.  (The manager's own operations cancel
\* the callback whenever they remove a record, so they only produce the
\* registries in which the three go together.)
InitExpire ==
    /\ now = TTLSeconds(SERVICE_TTL_RANGE.min)
    /\ data = [entries |-> <<1>>, _stream_proxy_registered |-> TRUE,
               _camera_hosts |-> NoCameraHosts]
    /\ services = {SERVICE_GENERATE_LINK}
    /\ \E recorded \in SUBSET Ids, registered \in SUBSET Ids, armed \in SUBSET Ids :
          /\ _links = [m \in Entries |-> [i \in Ids |->
                          IF m = LockEntry /\ i \in recorded
                          THEN ShareLink(i, RosdomofonEntity, 0, SERVICE_TTL_RANGE.min,
                                         TTLSeconds(SERVICE_TTL_RANGE.min))
                          ELSE NoLink]]
          /\ handlers = [i \in Ids |-> IF i \in registered THEN LockEntry ELSE 0]
          /\ timers = {[mgr |-> LockEntry, id |-> i,
                        due |-> TTLSeconds(SERVICE_TTL_RANGE.min)] : i \in armed}
    /\ calls = EmptyBag
    /\ _attr_is_locked = TRUE
    /\ _unlock_timer = <<>>
    /\ lock_timers = EmptyBag
    /\ last = Env

NextExpire == \E t \in timers : _expire(t)

SpecExpire == InitExpire /\ [][NextExpire]_vars

-----------------------------------------------------------------------------
(* The life of a link under the host's scheduling *)

\* Links are issued while their whole TTL lies within the clock's range.  The
\* host's event loop runs every callback that is due (weak fairness of
\* _expire) and time passes (weak fairness of Tick).
NextLive ==
    \/ \E e \in Entities, h \in Ids, u \in HostUrls :
          \E q \in {x \in TTLChoices : now + TTLSeconds(x) <= MaxTime} :
             generate(LockEntry, e, q, h, u)
    \/ \E i \in Ids : revoke(LockEntry, i)
    \/ \E t \in timers : _expire(t)
    \/ \E i \in Ids, st \in UNION {HostStates(e) : e \in Entities} :
          _handle_webhook(LockEntry, i, "GET", st)
    \/ \E d \in TickSteps : Tick(d)

SpecLive ==
    /\ Init
    /\ [][NextLive]_vars
    /\ WF_vars(\E t \in timers : _expire(t))
    /\ WF_vars(\E d \in TickSteps : Tick(d))

-----------------------------------------------------------------------------
(* The rosdomofon.generate_share_link service *)

\* a lock of the account of entry 2
CourtyardLock == "lock.courtyard"
ServiceEntities == {RosdomofonEntity, CourtyardLock}

\* the config entry whose lock platform created the lock entity
EntryOf(entity_id) == IF entity_id = RosdomofonEntity THEN LockEntry ELSE 2

\* the first item of hass.data[DOMAIN] that is a dict with a "share_manager":
\* the entry loaded first among those loaded, 0 when there is none
FirstShareManager == IF data.entries = <<>> THEN 0 ELSE data.entries[1]

\* handle_generate_link(call): the schema has admitted entity_id and
\* ttl_hours; the link is issued by the first share manager found, whatever
\* entry the lock belongs to.
handle_generate_link(entity_id, ttl_q, hex, host_url) ==
    /\ SERVICE_GENERATE_LINK \in services
    /\ TTLInRange(ttl_q)
    /\ LET mgr == FirstShareManager
       IN IF mgr = 0
          THEN /\ last' = Outcome("service", 0, "", entity_id, "returned",
                                  [notification_id |-> <<>>, url |-> None])
               /\ UNCHANGED <<_links, handlers, timers>>
          ELSE LET r == GenerateResult(mgr, entity_id, ttl_q, hex, host_url)
               IN /\ _links' = r.kept.links
                  /\ handlers' = r.kept.handlers
                  /\ timers' = r.kept.timers
                  /\ last' = IF r.status = "ExternalURLNotAvailable"
                             THEN Outcome("service", mgr, r.id, entity_id, "returned",
                                          [notification_id |-> <<"rosdomofon_no_external_url">>,
                                           url |-> None])
                             ELSE IF r.status # "ok"
                             THEN Outcome("service", mgr, r.id, entity_id, r.status,
                                          [notification_id |-> <<>>, url |-> None])
                             ELSE Outcome("service", mgr, r.id, entity_id, "returned",
                                          [notification_id |-> <<"rosdomofon_share_", entity_id>>,
                                           url |-> r.url])
    /\ UNCHANGED <<now, data, services, calls, _attr_is_locked, _unlock_timer, lock_timers>>

NextService ==
    \/ \E m \in Entries, ok \in BOOLEAN : async_setup_entry(m, ok, NoCameras)
    \/ \E e \in ServiceEntities, h \in Ids, u \in HostUrls :
          handle_generate_link(e, SERVICE_TTL_RANGE.min, h, u)
    \/ \E t \in timers : _expire(t)
    \/ \E d \in TickSteps : Tick(d)
    \/ \E m \in Entries, ok \in BOOLEAN : async_unload_entry(m, ok)

SpecService == InitEntries /\ [][NextService]_vars

-----------------------------------------------------------------------------
(* RosdomofonLock.async_unlock across its suspension, and the entity's removal *)

\* what async_write_ha_state does for an entity the host has removed: the
\* write is dropped, or the call raises (the host's versions differ)
WriteResults == {"written", "raises"}

\* async_unlock up to the await of the activation request (lines 115-125)
async_unlock_activate(c, token_ok) ==
    /\ BagIn(c, calls)
    /\ c.stage = "called"
    /\ c.entity_id = RosdomofonEntity
    /\ LockEntry \in Loaded
    /\ IF ~token_ok
       THEN Resume(c, None, UnlockResult(token_ok, "200"))
       ELSE /\ calls' = (calls (-) SetToBag({c}))
                           (+) SetToBag({[c EXCEPT !.stage = "activating"]})
            /\ last' = Outcome("unlock", c.mgr, c.id, None, "await", None)
    /\ UNCHANGED <<now, data, services, _links, handlers, timers,
                   _attr_is_locked, _unlock_timer, lock_timers>>

\* async_unlock from the return of the activation request on (lines 126-144).
\* The coroutine resumes whether or not its entity is still in the host;
\* written is the outcome of async_write_ha_state for a removed entity.
async_unlock_activated(c, activation, written) ==
    /\ BagIn(c, calls)
    /\ c.stage = "activating"
    /\ (LockEntry \in Loaded => written = "written")
    /\ LET res == UnlockResult(TRUE, activation)
       IN IF res # "opened"
          THEN /\ Resume(c, None, res)
               /\ UNCHANGED <<_attr_is_locked, _unlock_timer, lock_timers>>
          ELSE IF written = "raises"
          THEN /\ _attr_is_locked' = FALSE
               /\ Resume(c, "RuntimeError", "raised")
               /\ UNCHANGED <<_unlock_timer, lock_timers>>
          ELSE /\ _attr_is_locked' = FALSE
               /\ _unlock_timer' = <<now + _AUTO_LOCK_DELAY>>
               /\ lock_timers' = CancelAutoLock(lock_timers, _unlock_timer)
                                    (+) SetToBag({now + _AUTO_LOCK_DELAY})
               /\ Resume(c, None, res)
    /\ UNCHANGED <<now, data, services, _links, handlers, timers>>

\* One link and its guests around the unload of the lock's entry, which
\* removes the lock entity.
NextRemoval ==
    \/ \E h \in Ids : generate(LockEntry, RosdomofonEntity, SERVICE_TTL_RANGE.min, h, PublicUrl)
    \/ \E i \in Ids, meth \in Methods :
          \E st \in StatesWithin(MaxCalls, LockEntry, i, meth,
                                  {StateName(RosdomofonEntity)}) :
             _handle_webhook(LockEntry, i, meth, st)
    \/ \E c \in BagToSet(calls), ok \in BOOLEAN : async_unlock_activate(c, ok)
    \/ \E c \in BagToSet(calls), r \in ActivateResults, w \in WriteResults :
          async_unlock_activated(c, r, w)
    \/ \E c \in BagToSet(calls), x \in ExcTexts : CallRaises(c, x)
    \/ _async_auto_lock
    \/ \E d \in TickSteps : Tick(d)
    \/ \E ok \in BOOLEAN : async_unload_entry(LockEntry, ok)

SpecRemoval == Init /\ [][NextRemoval]_vars

-----------------------------------------------------------------------------
(* The auto-lock under the host's scheduling *)

\* the clock's range and steps around one auto-lock delay
MaxLockTime == 12
LockTickSteps == {1, _AUTO_LOCK_DELAY}

\* unlocks are started and finished while the auto-lock they arm lies within
\* the clock's range
InLockRange == now + _AUTO_LOCK_DELAY <= MaxLockTime

\* Guests confirm on a link of the integration's lock.  The host's event loop
\* runs the auto-lock callback once it is due (weak fairness of
\* _async_auto_lock) and time passes (weak fairness of Tick).
NextAutoLock ==
    \/ \E h \in Ids : generate(LockEntry, RosdomofonEntity, SERVICE_TTL_RANGE.min, h, PublicUrl)
    \/ \E i \in Ids :
          \E st \in {x \in StatesWithin(MaxCalls, LockEntry, i, "POST",
                                         {StateName(RosdomofonEntity)}) : InLockRange} :
             _handle_webhook(LockEntry, i, "POST", st)
    \/ \E c \in {x \in BagToSet(calls) : InLockRange}, ok \in BOOLEAN, r \in ActivateResults :
          async_unlock(c, ok, r)
    \/ _async_auto_lock
    \/ \E d \in {x \in LockTickSteps : now + x <= MaxLockTime} : Tick(d)

SpecAutoLock ==
    /\ Init
    /\ [][NextAutoLock]_vars
    /\ WF_vars(_async_auto_lock)
    /\ WF_vars(\E d \in {x \in LockTickSteps : now + x <= MaxLockTime} : Tick(d))

-----------------------------------------------------------------------------
(* Properties *)

\* the step just taken was the handler answering (or suspending) a request
\* with this method on id i of manager m
Requested(m, i, method) ==
    /\ last'.op = "request"
    /\ last'.mgr = m
    /\ last'.id = i
    /\ last'.arg[1] = method

\* C1: a request (GET or POST) on an id that is absent from the registry is
\* answered with the 410 'link invalid' response and starts no unlock call.
C1_AbsentLinkGets410 ==
    [][\A m \in Entries, i \in Ids, method \in Methods :
          (Requested(m, i, method) /\ ~_links[m][i].present)
             => (last'.status = "410" /\ calls' = calls)]_vars

\* C2: a request arriving after expires_at on a link whose record is still in
\* the registry (its timer has not fired) is answered 410 and starts no
\* unlock call.
C2_ExpiredLinkGets410 ==
    [][\A m \in Entries, i \in Ids, method \in Methods :
          (/\ Requested(m, i, method)
           /\ _links[m][i].present
           /\ now > expires_at(_links[m][i]))
             => (last'.status = "410" /\ calls' = calls)]_vars

\* C3: a link with a TTL in the allowed range is not expired at its issuance
\* and is expired at every time t >= created_at + ttl, the instant expires_at
\* included.
C3_ExpiredFromExpiresAt ==
    \A m \in Entries, i \in Ids :
        LET link == _links[m][i]
        IN (link.present /\ TTLInRange(link.ttl_hours))
              => /\ ~is_expired(link, link.created_at)
                 /\ now >= expires_at(link) => is_expired(link, now)

\* the calls that a step adds to those in flight
Started(c) == CopiesIn(c, calls') > CopiesIn(c, calls)

\* C4: a POST on a valid link (record present, not expired, entity resolvable)
\* starts exactly one service call, lock.unlock on the link's entity_id with
\* blocking=True; and when a call returns without raising, the handler's
\* response is the 200 success payload.
C4_ValidPostUnlocksOnce ==
    [][/\ \A m \in Entries, i \in Ids :
            (/\ Requested(m, i, "POST")
             /\ last'.arg[2] # None
             /\ _links[m][i].present
             /\ ~is_expired(_links[m][i], now))
               => \E c \in BagToSet(calls') :
                     /\ calls' = calls (+) SetToBag({c})
                     /\ c.domain = "lock" /\ c.service = "unlock"
                     /\ c.entity_id = _links[m][i].entity_id
                     /\ c.blocking = TRUE
                     /\ c.mgr = m /\ c.id = i
       /\ (last'.op = "response" /\ last'.arg # "raised")
             => /\ last'.status = "200"
                /\ last'.body.status = "ok"
                /\ BagCardinality(calls') = BagCardinality(calls) - 1]_vars

\* a POST on a valid link has been answered with the success payload after the
\* lock was opened
C4_Witness ==
    /\ last.op = "response"
    /\ last.arg = "opened"
    /\ last.status = "200"
    /\ last.body.status = "ok"
    /\ ~_attr_is_locked

\* C5: a GET (entity resolvable) is accepted, i.e. answered with the 200
\* confirmation page showing the display name and the whole hours and minutes
\* of max(0, expires_at - now), if and only if the record is in the registry
\* and now < expires_at.
C5_AcceptedIffBeforeExpiry ==
    [][\A m \in Entries, i \in Ids :
          Requested(m, i, "GET") =>
             LET link == _links[m][i]
                 state == last'.arg[2]
                 usable == link.present /\ now < expires_at(link)
                 left == Max(0, expires_at(link) - now)
             IN /\ last'.status = "200" => usable
                /\ (usable /\ state # None) =>
                      /\ last'.status = "200"
                      /\ last'.body[2] = (IF state # "" THEN state ELSE "Zamok")
                      /\ last'.body[4] = left \div SecondsPerHour
                      /\ last'.body[6] = (left % SecondsPerHour) \div 60]_vars

\* C6: generate called while the host exposes no external URL raises
\* ExternalURLNotAvailable and creates nothing: registry, handlers and timers
\* are unchanged.
C6_NoUrlNoState ==
    [][(last'.op = "generate" /\ last'.arg = None)
          => /\ last'.status = "ExternalURLNotAvailable"
             /\ UNCHANGED <<_links, handlers, timers>>]_vars

\* generate has just failed for want of an external URL while a link issued
\* earlier is still registered
C6_Witness ==
    /\ last.op = "generate"
    /\ last.arg = None
    /\ last.status = "ExternalURLNotAvailable"
    /\ \E m \in Entries, i \in Ids : _links[m][i].present /\ handlers[i] = m

\* C7 as stated: generate called with ttl_hours outside [0.5, 168] fails with
\* an invalid-TTL error and changes no state.
C7_IssuerRejectsBadTTL ==
    [][last'.op = "generate" =>
       \A m \in Entries, e \in Entities, q \in TTLChoices, h \in Ids, u \in HostUrls :
          (generate(m, e, q, h, u) /\ ~TTLInRange(q))
             => /\ last'.status # "ok"
                /\ u # None => last'.status = "InvalidTTLError"
                /\ UNCHANGED <<_links, handlers, timers>>]_vars

\* C7 amended: generate does not validate ttl_hours.  With an external URL
\* available and an id not yet registered, a call with a TTL outside
\* [0.5, 168] succeeds like any other: it returns the URL, registers the
\* handler, records the link with exactly that TTL and schedules its expiry
\* ttl_hours * 3600 seconds ahead.
C7_IssuerAcceptsAnyTTL ==
    [][(last'.op = "generate" /\ last'.arg = PublicUrl /\ last'.id \in Ids) =>
       LET m == last'.mgr
           h == last'.id
       IN \A e \in Entities, q \in {x \in TTLChoices : ~TTLInRange(x)} :
             (handlers[h] = 0 /\ generate(m, e, q, h, PublicUrl))
                => /\ last'.status = "ok"
                   /\ last'.body = Url(PublicUrl, h)
                   /\ handlers'[h] = m
                   /\ _links'[m][h].present
                   /\ _links'[m][h].entity_id = e
                   /\ _links'[m][h].ttl_hours = q
                   /\ expires_at(_links'[m][h]) = now + (q * SecondsPerHour) \div 4
                   /\ timers' = timers \cup
                         {[mgr |-> m, id |-> h, due |-> now + (q * SecondsPerHour) \div 4]}]_vars

\* generate has just issued a link whose TTL is outside the service's range
C7_Witness ==
    /\ last.op = "generate"
    /\ last.status = "ok"
    /\ _links[last.mgr][last.id].present
    /\ ~TTLInRange(_links[last.mgr][last.id].ttl_hours)
    /\ _links[last.mgr][last.id].created_at = now

\* C8: every host action the handler starts on behalf of a link is lock.unlock
\* on the entity_id recorded for that link, and the entity_id of a record never
\* changes while the record stays in the registry as the same link.
C8_OnlyUnlockOfOwnEntity ==
    [][/\ \A c \in BagToSet(calls') :
            Started(c) =>
               /\ c.domain = "lock"
               /\ c.service = "unlock"
               /\ c.mgr \in Entries /\ c.id \in Ids
               /\ _links[c.mgr][c.id].present
               /\ c.entity_id = _links[c.mgr][c.id].entity_id
               /\ last'.op = "request" /\ last'.mgr = c.mgr /\ last'.id = c.id
       /\ \A m \in Entries, i \in Ids :
            (/\ _links[m][i].present /\ _links'[m][i].present
             /\ _links'[m][i].created_at = _links[m][i].created_at)
               => _links'[m][i].entity_id = _links[m][i].entity_id]_vars

\* an unlock call is in flight for a link issued for the other entity
C8_Witness ==
    \E c \in BagToSet(calls) :
        /\ c.entity_id # RosdomofonEntity
        /\ _links[c.mgr][c.id].present
        /\ _links[c.mgr][c.id].entity_id = c.entity_id
        /\ last.op = "request" /\ last.status = "await"

\* C9: when the unlock call of a POST on a valid link raises, the guest gets
\* the 500 failure payload and the link is not consumed: record, handler and
\* expiry timer are unchanged, and while the link is unexpired a further POST
\* (entity resolvable) starts the unlock call again.
C9_RaisedCallKeepsLink ==
    [][(last'.op = "response" /\ last'.arg = "raised")
          => /\ last'.status = "500"
             /\ last'.body.status = "error"
             /\ UNCHANGED <<_links, handlers, timers>>
             /\ \A m \in Entries, i \in Ids :
                   (/\ last'.mgr = m /\ last'.id = i
                    /\ _links'[m][i].present
                    /\ ~is_expired(_links'[m][i], now'))
                      => \A st \in HostStates(_links'[m][i].entity_id) \ {None} :
                            HandlerAnswer(m, i, "POST", st)'.status = "await"]_vars

\* the guest has just been answered 500 after the call raised, and the link is
\* still registered, unexpired, with its handler and its timer
C9_Witness ==
    /\ last.op = "response"
    /\ last.arg = "raised"
    /\ last.status = "500"
    /\ _links[last.mgr][last.id].present
    /\ ~is_expired(_links[last.mgr][last.id], now)
    /\ handlers[last.id] = last.mgr
    /\ \E t \in timers : t.mgr = last.mgr /\ t.id = last.id

\* C10: when the activation of the target lock fails downstream (the token
\* cannot be refreshed, the activation request raises, or the cloud answers
\* non-200), the guest's POST is answered 500, never with the success payload.
C10_DownstreamFailureGets500 ==
    [][(/\ last'.op = "response"
        /\ last'.arg \in {"token_refresh_failed", "activation_raised",
                          "activation_failed"})
          => /\ last'.status = "500"
             /\ last'.body.status # "ok"]_vars

\* C11: the body of a guest-facing error response does not depend on internal
\* details: for every unlock call in flight, the handler's answer is the same
\* whichever exception text the call raises.
C11_ErrorBodyIndependentOfException ==
    \A c \in BagToSet(calls) :
        \A x1 \in ExcTexts, x2 \in ExcTexts :
            AfterCall(c, x1).body = AfterCall(c, x2).body

\* C12: a request (GET or POST) on a valid link whose entity the host no longer
\* resolves is answered 404, starts no unlock call and leaves the link in the
\* registry.
C12_UnresolvableEntityGets404 ==
    [][\A m \in Entries, i \in Ids, method \in Methods :
          (/\ Requested(m, i, method)
           /\ _links[m][i].present
           /\ ~is_expired(_links[m][i], now)
           /\ last'.arg[2] = None)
             => /\ last'.status = "404"
                /\ calls' = calls
                /\ _links' = _links]_vars

\* the registry, timers and handlers an operation leaves behind
Kept(st) == <<st.links, st.timers, st.handlers>>

\* C13: revoke is idempotent.  After any revoke(id), revoking the same id once
\* more would leave registry, timers and handlers as they are; and a revoke of
\* an id that is not in the registry (already revoked, expired or never
\* issued) changes nothing, raises nothing and calls neither cancel_expiry nor
\* async_unregister.
C13_RevokeIdempotent ==
    [][last'.op = "revoke" =>
          LET m == last'.mgr
              i == last'.id
              again == RevokeEffect(m, i, RegistryState(_links', timers', handlers'))
          IN /\ last'.status = "ok"
             /\ Kept(again) = <<_links', timers', handlers'>>
             /\ HostCalls(again) = [cancelled |-> EmptyBag, unregistered |-> EmptyBag]
             /\ ~_links[m][i].present
                   => /\ UNCHANGED <<_links, timers, handlers>>
                      /\ last'.body = [cancelled |-> EmptyBag,
                                       unregistered |-> EmptyBag]]_vars

\* revoke has just been called on an id that is not in the registry while
\* another link is active
C13_Witness ==
    /\ last.op = "revoke"
    /\ last.body.unregistered = EmptyBag
    /\ ~_links[last.mgr][last.id].present
    /\ \E i \in Ids : _links[last.mgr][i].present /\ handlers[i] = last.mgr

\* the expiry timers of the link with id i of manager m
TimersOf(ts, m, i) == {t \in ts : t.mgr = m /\ t.id = i}

\* C14: revoke(id) on an active link removes the record, unregisters its
\* handler exactly once and cancels its expiry timer, and touches no other
\* link; every pending timer belongs to a link in the registry, so the expiry
\* callback never runs for a revoked id.
C14_RevokeRemovesLinkHandlerTimer ==
    [][/\ (last'.op = "revoke" /\ _links[last'.mgr][last'.id].present) =>
            LET m == last'.mgr
                i == last'.id
            IN /\ ~_links'[m][i].present
               /\ handlers'[i] = 0
               /\ last'.body.unregistered = SetToBag({i})
               /\ last'.body.cancelled = SetToBag({i})
               /\ TimersOf(timers, m, i) # {}
               /\ timers' = timers \ TimersOf(timers, m, i)
               /\ \A m2 \in Entries, i2 \in Ids :
                     <<m2, i2>> # <<m, i>> => _links'[m2][i2] = _links[m2][i2]
               /\ \A i2 \in Ids \ {i} : handlers'[i2] = handlers[i2]
       /\ \A t \in timers' :
             /\ _links'[t.mgr][t.id].present
             /\ _links'[t.mgr][t.id].cancel_expiry = t.due
       /\ last'.op = "expire" => _links[last'.mgr][last'.id].present]_vars

\* an active link has just been revoked while another one stays active with
\* its handler and its timer
C14_Witness ==
    /\ last.op = "revoke"
    /\ last.body.unregistered = SetToBag({last.id})
    /\ ~_links[last.mgr][last.id].present
    /\ \E i \in Ids \ {last.id} :
          /\ _links[last.mgr][i].present
          /\ handlers[i] = last.mgr
          /\ TimersOf(timers, last.mgr, i) # {}

\* C15: revoke_all leaves the manager's registry empty whatever the number of
\* active links, and unregisters one handler and cancels one timer for each
\* link that was active, and for no other.
C15_RevokeAllEmpties ==
    [][last'.op = "revoke_all" =>
          LET m == last'.mgr
              active == {i \in Ids : _links[m][i].present}
          IN /\ \A i \in Ids : ~_links'[m][i].present
             /\ last'.body.unregistered = SetToBag(active)
             /\ last'.body.cancelled = SetToBag(active)
             /\ \A i \in Ids :
                   handlers'[i] = IF i \in active THEN 0 ELSE handlers[i]
             /\ timers' = {t \in timers : t.mgr # m}
             /\ \A m2 \in Entries \ {m} : _links'[m2] = _links[m2]]_vars

\* revoke_all has just revoked two links at once
C15_Witness ==
    /\ last.op = "revoke_all"
    /\ BagCardinality(last.body.unregistered) = 2
    /\ BagCardinality(last.body.cancelled) = 2
    /\ timers = {}

\* C16: a successful unload of a config entry calls revoke_all on the entry's
\* share manager and drops the entry's data: of the links that manager held,
\* none remains in its registry, none keeps its handler registered and none
\* keeps a pending expiry timer, and this stays so while the entry is not
\* loaded.
C16_UnloadLeavesNoLinks ==
    [][/\ (last'.op = "unload" /\ last'.status = "True") =>
            LET m == last'.mgr
                active == {i \in Ids : _links[m][i].present}
            IN /\ m \in Loaded /\ m \notin Loaded'
               /\ last'.body.unregistered = SetToBag(active)
               /\ last'.body.cancelled = SetToBag(active)
               /\ \A i \in active : handlers[i] = m /\ handlers'[i] = 0
       /\ \A m \in Entries \ Loaded' :
             /\ \A i \in Ids : ~_links'[m][i].present /\ handlers'[i] # m
             /\ \A t \in timers' : t.mgr # m]_vars

\* an entry holding two active links has just been unloaded
C16_Witness ==
    /\ last.op = "unload"
    /\ last.status = "True"
    /\ last.mgr \notin Loaded
    /\ BagCardinality(last.body.unregistered) = 2
    /\ \A i \in Ids : handlers[i] = 0

C18_DuplicateIdRejected ==
    [][/\ (/\ last'.op = "generate"
           /\ last'.id \in Ids
           /\ \E m \in Entries : _links[m][last'.id].present)
             => /\ last'.status = "ValueError"
                /\ UNCHANGED <<_links, handlers, timers>>
       /\ \A i \in Ids :
             /\ Cardinality({m \in Entries : _links'[m][i].present}) <= 1
             /\ \A m \in Entries :
                   _links'[m][i].present => _links'[m][i].webhook_id = i]_vars

\* generate has just failed on an id that is active in the other manager
C18_Witness ==
    /\ last.op = "generate"
    /\ last.status = "ValueError"
    /\ \E m \in Entries \ {last.mgr} :
          _links[m][last.id].present /\ handlers[last.id] = m

\* C19: a successful generate returns external_url + "/api/webhook/" +
\* webhook_id, webhook_id being the share prefix followed by an id of at least
\* 32 characters; under that id there is exactly one new record, exactly one
\* newly registered handler, which serves GET and POST, and exactly one newly
\* scheduled expiry timer, and nothing else has changed.
C19_GenerateReturnsUrlOfNewLink ==
    [][(last'.op = "generate" /\ last'.status = "ok") =>
       \A m \in {last'.mgr}, h \in {last'.id} :
             /\ last'.body = <<last'.arg, "/api/webhook/", SHARE_LINK_WEBHOOK_PREFIX, h>>
             /\ last'.arg # None
             /\ Len(h) >= 32
             /\ ~_links[m][h].present
             /\ _links'[m][h].present /\ _links'[m][h].webhook_id = h
             /\ \A m2 \in Entries, i2 \in Ids :
                   <<m2, i2>> # <<m, h>> => _links'[m2][i2] = _links[m2][i2]
             /\ handlers[h] = 0 /\ handlers'[h] = m
             /\ \A i2 \in Ids \ {h} : handlers'[i2] = handlers[i2]
             /\ timers \subseteq timers'
             /\ timers' \ timers = TimersOf(timers', m, h)
             /\ Cardinality(TimersOf(timers', m, h)) = 1
             /\ \A e \in Entities : \A st \in HostStates(e) \ {None} :
                   _links'[m][h].entity_id = e
                      => /\ HandlerAnswer(m, h, "GET", st)'.status = "200"
                         /\ HandlerAnswer(m, h, "POST", st)'.status = "await"]_vars

\* a second link has just been issued next to an active one
C19_Witness ==
    /\ last.op = "generate"
    /\ last.status = "ok"
    /\ last.body = Url(PublicUrl, last.id)
    /\ \A i \in Ids : _links[last.mgr][i].present /\ handlers[i] = last.mgr
    /\ Cardinality(timers) = 2
\* the host recorded for a camera at set-up, None for an unknown camera
RecordedHost(camera_id) ==
    IF data._camera_hosts.present /\ camera_id \in CameraIds
    THEN data._camera_hosts.hosts[camera_id] ELSE None

\* hosts of the domain rosdomofon.com among the hosts of the model
RosdomofonHosts == {RdvaHost}

\* C21: the stream proxy sends the upstream request (with the bearer token)
\* only for a known camera whose recorded host is the host named in the path
\* and belongs to rosdomofon.com; with a token at hand, an unknown camera is
\* answered 404 and a mismatching or foreign host 403, without any request.
C21_ProxyOnlyToRecordedHost ==
    [][last'.op = "stream" =>
         LET known == RecordedHost(last'.id) # None
             allowed == /\ known
                        /\ last'.arg.host = RecordedHost(last'.id)
                        /\ last'.arg.host \in RosdomofonHosts
         IN /\ last'.body # NoRequest => allowed
            /\ (last'.arg.token_ok /\ ~known) => last'.status = "404"
            /\ (last'.arg.token_ok /\ known /\ ~allowed) => last'.status = "403"]_vars

\* C22: a press of the share button without an external URL raises
\* HomeAssistantError and creates no link.
C22_PressWithoutUrlRaises ==
    [][(last'.op = "press" /\ last'.arg.host_url = None) =>
          /\ last'.status = "HomeAssistantError"
          /\ UNCHANGED <<_links, handlers, timers>>]_vars

\* C23: a press of the share button whose lock entity is not in the entity
\* registry raises HomeAssistantError and issues no link.
C23_PressUnknownLockRaises ==
    [][(last'.op = "press" /\ ~last'.arg.in_registry) =>
          /\ last'.status = "HomeAssistantError"
          /\ UNCHANGED <<_links, handlers, timers>>]_vars
\* C24: after a successful async_unlock the lock is unlocked and exactly one
\* auto-lock timer is pending, the one the entity holds, due _AUTO_LOCK_DELAY
\* from now; when the timer fires the lock is locked and no timer is pending.
C24_UnlockArmsOneAutoLock ==
    [][/\ (last'.op = "response" /\ last'.arg = "opened")
            => /\ ~_attr_is_locked'
               /\ _unlock_timer' = <<now + _AUTO_LOCK_DELAY>>
               /\ lock_timers' = SetToBag({now + _AUTO_LOCK_DELAY})
       /\ last'.op = "auto_lock"
            => /\ ~_attr_is_locked /\ _attr_is_locked'
               /\ _unlock_timer' = <<>>
               /\ lock_timers' = EmptyBag]_vars

\* the auto-lock timer of a successful unlock has fired
C24_Witness ==
    /\ last.op = "auto_lock"
    /\ now >= _AUTO_LOCK_DELAY
    /\ _attr_is_locked
    /\ _unlock_timer = <<>>
    /\ lock_timers = EmptyBag

\* C25: an async_unlock that fails (no token, the activation answers with a
\* failure, the activation request raises) leaves is_locked and the pending
\* auto-lock timer as they were.
C25_FailedUnlockKeepsState ==
    [][\A c \in BagToSet(calls), ok \in BOOLEAN, r \in ActivateResults :
          (last'.op = "response" /\ (~ok \/ r # "200") /\ async_unlock(c, ok, r))
             => /\ UNCHANGED <<_attr_is_locked, _unlock_timer, lock_timers>>
                /\ last'.arg \in {"token_refresh_failed", "activation_raised",
                                  "activation_failed"}]_vars

\* an unlock of the locked lock has failed at the activation: the lock is
\* still locked and has no timer
C25_Witness ==
    /\ last.op = "response"
    /\ last.arg \in {"activation_raised", "activation_failed"}
    /\ _attr_is_locked
    /\ _unlock_timer = <<>>
    /\ lock_timers = EmptyBag
\* C26: validity is decided at actuation: a step of the handler starts an
\* unlock call only if in the state it reads the record is in the registry and
\* the time is before its expires_at, so a POST on a link that has expired or
\* been revoked since the page was loaded starts nothing; and a revoke or an
\* expiry removes the link in its own step, whatever calls are in flight.
C26_ValidityAtActuation ==
    [][/\ \A c \in BagToSet(calls') :
            Started(c) => /\ last'.op = "request"
                          /\ _links[c.mgr][c.id].present
                          /\ now < expires_at(_links[c.mgr][c.id])
       /\ last'.op \in {"revoke", "expire"}
            => /\ ~_links'[last'.mgr][last'.id].present
               /\ calls' = calls]_vars
\* C27: a POST on a valid link is admitted and starts exactly one unlock call
\* whatever calls are already in flight, those on the same link included; and
\* while a request is suspended in its call, further requests on its link,
\* generate, revoke and every due expiry callback can still run.
C27_OverlappingPostsBothAdmitted ==
    [][/\ \A m \in Entries, i \in Ids :
            (/\ Requested(m, i, "POST")
             /\ last'.arg[2] # None
             /\ _links[m][i].present
             /\ ~is_expired(_links[m][i], now))
               => \E c \in BagToSet(calls') :
                     /\ calls' = calls (+) SetToBag({c})
                     /\ c.mgr = m /\ c.id = i
                     /\ c.entity_id = _links[m][i].entity_id
       /\ \A c \in BagToSet(calls) :
             /\ \A meth \in Methods :
                   \E st \in HostStates(RosdomofonEntity) :
                      ENABLED _handle_webhook(c.mgr, c.id, meth, st)
             /\ ENABLED revoke(c.mgr, c.id)
             /\ \A h \in Ids :
                   ENABLED generate(c.mgr, RosdomofonEntity, SERVICE_TTL_RANGE.min, h, PublicUrl)
             /\ \A t \in timers : now >= t.due => ENABLED _expire(t)]_vars

\* two unlock calls started by POSTs on the same link are in flight together
C27_Witness ==
    \E c \in BagToSet(calls) :
       /\ CopiesIn(c, calls) = 2
       /\ _links[c.mgr][c.id].present
       /\ last.op = "request" /\ last.status = "await" /\ last.id = c.id
\* C28: use does not consume a link: every POST on a valid link adds one
\* unlock call to those in flight, and a confirmation answered with success
\* leaves the link's record, handler and timer as they were, so that the link
\* admits the next POST exactly as it admitted this one.
C28_LinkNotConsumedByUse ==
    [][/\ \A m \in Entries, i \in Ids :
            (/\ Requested(m, i, "POST")
             /\ last'.arg[2] # None
             /\ _links[m][i].present
             /\ ~is_expired(_links[m][i], now))
               => BagCardinality(calls') = BagCardinality(calls) + 1
       /\ (last'.op = "response" /\ last'.status = "200")
            => \A m \in {last'.mgr}, i \in {last'.id} :
                  /\ _links'[m][i] = _links[m][i]
                  /\ handlers'[i] = handlers[i]
                  /\ TimersOf(timers', m, i) = TimersOf(timers, m, i)
                  /\ \A st \in HostStates(RosdomofonEntity) :
                        HandlerAnswer(m, i, "POST", st)' = HandlerAnswer(m, i, "POST", st)]_vars

\* a further POST is admitted on the only link while the lock is still open
\* from an earlier confirmation
C28_Witness ==
    /\ last.op = "request"
    /\ last.status = "await"
    /\ last.arg[1] = "POST"
    /\ ~_attr_is_locked
    /\ lock_timers # EmptyBag
    /\ \A m \in Entries, i \in Ids :
          _links[m][i].present <=> (m = last.mgr /\ i = last.id)
    /\ \A i \in Ids : handlers[i] # 0 <=> i = last.id

\* C29: the guest handler only reads: whatever the request and its outcome,
\* records, registered handlers and pending timers are the same after the
\* handler's step (the answer, the start of the call, the answer after the
\* call) as before; a GET moreover starts no call and leaves the lock alone.
C29_HandlerOnlyReads ==
    [][/\ last'.op \in {"request", "response"}
            => UNCHANGED <<_links, handlers, timers>>
       /\ (last'.op = "request" /\ last'.arg[1] = "GET")
            => UNCHANGED <<calls, _attr_is_locked, _unlock_timer, lock_timers>>]_vars

\* a GET has found its link expired, and the record, its handler and its
\* timer are still there
C29_Witness ==
    /\ last.op = "request"
    /\ last.arg[1] = "GET"
    /\ _links[last.mgr][last.id].present
    /\ is_expired(_links[last.mgr][last.id], now)
    /\ handlers[last.id] = last.mgr
    /\ TimersOf(timers, last.mgr, last.id) # {}
\* C30: the expiry callback raises nothing whatever it finds: fired for an id
\* whose record is gone it leaves the records as they are, fired for an id
\* whose handler is unregistered it leaves the handlers as they are, and in
\* every case the records, handlers and timers of all other ids are untouched
\* (of its own id, only the callback that fired is no longer pending).
C30_ExpiryCallbackDefensive ==
    [][last'.op = "expire" =>
         \A m \in {last'.mgr}, i \in {last'.id} :
            /\ last'.status = "ok"
            /\ ~_links[m][i].present => _links' = _links
            /\ handlers[i] = 0 => handlers' = handlers
            /\ \A m2 \in Entries, i2 \in Ids :
                  <<m2, i2>> # <<m, i>> => _links'[m2][i2] = _links[m2][i2]
            /\ \A i2 \in Ids \ {i} : handlers'[i2] = handlers[i2]
            /\ timers' \subseteq timers
            /\ timers \ timers' \subseteq TimersOf(timers, m, i)]_vars

\* the callback has fired for an id that had neither record nor handler,
\* while the other id still has its record, its handler and its timer
C30_Witness ==
    /\ last.op = "expire"
    /\ last.status = "ok"
    /\ ~last.body.popped
    /\ ~last.body.registered
    /\ \E i \in Ids \ {last.id} :
          /\ _links[last.mgr][i].present
          /\ handlers[i] = last.mgr
          /\ TimersOf(timers, last.mgr, i) # {}
\* C31: every issued link is eventually removed: whenever a record is in the
\* registry, a later state has it out of the registry with its public handler
\* unregistered, be it by revocation or by the timer armed at issuance.
C31_LinkEventuallyRemoved ==
    \A i \in Ids :
       _links[LockEntry][i].present
          ~> (~_links[LockEntry][i].present /\ handlers[i] = 0)

\* the timer of a link that nobody revoked has fired and removed it
C31_Witness ==
    /\ last.op = "expire"
    /\ last.body.popped
    /\ last.body.registered
    /\ ~_links[last.mgr][last.id].present
    /\ handlers[last.id] = 0
    /\ TimersOf(timers, last.mgr, last.id) = {}
\* C32: a link dies with the entry its lock belongs to: once an entry has
\* been unloaded, no share manager holds a link for a lock of that entry.
C32_LinkDiesWithOwningEntry ==
    [][(last'.op = "unload" /\ last'.status = "True") =>
          \A m \in Entries, i \in Ids :
             _links'[m][i].present => EntryOf(_links'[m][i].entity_id) # last'.mgr]_vars

\* C33: once the last config entry has been unloaded the generate_share_link
\* service is removed, and it is registered whenever an entry is loaded.
C33_ServiceRemovedWithLastEntry ==
    /\ Loaded = {} => SERVICE_GENERATE_LINK \notin services
    /\ Loaded # {} => SERVICE_GENERATE_LINK \in services
\* C34: a record is never updated in place: as long as an id stays in a
\* manager's registry its record (entity_id, created_at, ttl_hours, hence
\* expires_at) is the one written at issuance.
C34_RecordNeverUpdatedInPlace ==
    [][\A m \in Entries, i \in Ids :
          (_links[m][i].present /\ _links'[m][i].present)
             => /\ _links'[m][i].entity_id = _links[m][i].entity_id
                /\ _links'[m][i].created_at = _links[m][i].created_at
                /\ _links'[m][i].ttl_hours = _links[m][i].ttl_hours
                /\ expires_at(_links'[m][i]) = expires_at(_links[m][i])]_vars

\* a link issued at time 0 has been used after time has passed and is still
\* the record of its issuance
C34_Witness ==
    /\ last.op = "response"
    /\ now > 0
    /\ _links[last.mgr][last.id].present
    /\ _links[last.mgr][last.id].created_at = 0
    /\ _links[last.mgr][last.id].ttl_hours \in TTLChoices
    /\ expires_at(_links[last.mgr][last.id]) >= now

\* the ids in some manager's registry, the ids with a registered handler and
\* the ids with a pending expiry timer
RecordedIds == {i \in Ids : \E m \in Entries : _links[m][i].present}
RegisteredIds == {i \in Ids : handlers[i] # 0}
ArmedIds == {t.id : t \in timers}

\* C35: between operations the ids in the registry, the ids with a registered
\* public handler and the ids with a pending expiry timer are the same set;
\* the handler and the one timer of an id belong to the manager holding it.
C35_RegistryHandlersTimersCoincide ==
    /\ RecordedIds = RegisteredIds
    /\ RegisteredIds = ArmedIds
    /\ \A m \in Entries, i \in Ids :
          _links[m][i].present
             => /\ handlers[i] = m
                /\ Cardinality(TimersOf(timers, m, i)) = 1
                /\ \A t \in timers : t.id = i => t.mgr = m

\* one of two links has been revoked and the other is still complete
C35_Witness ==
    /\ last.op = "revoke"
    /\ last.body.unregistered = SetToBag({last.id})
    /\ Cardinality(RecordedIds) = 1
    /\ RecordedIds = ArmedIds
    /\ last.id \notin RegisteredIds

\* C36: the expiry timer never removes a link early: the record's created_at
\* is the time of issuance and its timer is armed for expires_at or later, a
\* timer that fires finds now >= expires_at of its link, and a record leaves
\* the registry only by a revocation or by its timer.
C36_TimerNeverEarly ==
    [][/\ (last'.op = "generate" /\ last'.status = "ok")
            => \A m \in {last'.mgr}, i \in {last'.id} :
                  /\ _links'[m][i].created_at <= now
                  /\ \A t \in TimersOf(timers', m, i) : t.due >= expires_at(_links'[m][i])
       /\ \A m \in Entries, i \in Ids :
            (_links[m][i].present /\ ~_links'[m][i].present)
               => \/ last'.op \in {"revoke", "revoke_all"}
                  \/ /\ last'.op = "expire"
                     /\ now >= expires_at(_links[m][i])]_vars

\* a timer has fired at its link's expires_at and removed the link
C36_Witness ==
    /\ last.op = "expire"
    /\ last.body.popped
    /\ now >= TTLSeconds(SERVICE_TTL_RANGE.min)
    /\ ~_links[last.mgr][last.id].present
\* C37: once the lock entity has been removed from the host (its entry is
\* unloaded) no auto-lock timer of it is pending.
C37_NoAutoLockTimerAfterRemoval ==
    LockEntry \notin Loaded => lock_timers = EmptyBag
\* C38: an unlocked lock always re-locks.  While the lock is unlocked exactly
\* one auto-lock timer is pending, the entity's; each successful unlock arms
\* it for one delay after that unlock, so the lock is never re-locked before
\* one delay after the latest unlock; and every unlocked state is followed by
\* a locked one.
C38_UnlockedLockRelocks ==
    /\ [](BagCardinality(lock_timers) <= 1)
    /\ [](~_attr_is_locked
            => _unlock_timer # <<>> /\ lock_timers = SetToBag({_unlock_timer[1]}))
    /\ [][(last'.op = "response" /\ last'.arg = "opened")
            => _unlock_timer' = <<now + _AUTO_LOCK_DELAY>>]_vars
    /\ [][last'.op = "auto_lock"
            => _unlock_timer # <<>> /\ now >= _unlock_timer[1] /\ _attr_is_locked']_vars
    /\ (~_attr_is_locked ~> _attr_is_locked)

\* the lock has re-locked later than one delay after time 0 and sooner than
\* two: the unlock that armed the timer was not the first instant's
C38_Witness ==
    /\ last.op = "auto_lock"
    /\ _attr_is_locked
    /\ lock_timers = EmptyBag
    /\ now > _AUTO_LOCK_DELAY
    /\ now < 2 * _AUTO_LOCK_DELAY
====
